---- MODULE Spec2Model ----
(***************************************************************************)
(* A model of ScanPyImports: scan.py (Line, File, Directory) and           *)
(* analyzer.py (Data, DataAnalyzer).                                       *)
(*                                                                         *)
(* Text is modelled character by character: a Python str is a sequence of  *)
(* one-character strings, so that the regular expressions of the source    *)
(* are computed as scans over the characters.                              *)
(***************************************************************************)
EXTENDS Integers, Sequences, FiniteSets, TLC

VARIABLES
    fs,      \* the file system: file path -> content of the file
    arg,     \* the argument of the constructor being run (a text or a path)
    pc,      \* where the run of the program is
    line,    \* the Line object
    file,    \* the File object
    data,    \* the Data / DataAnalyzer object (with its Directory)
    raised,  \* the exception that ended the last operation, or "none"
    ret      \* what the last operation returned to its caller

vars == <<fs, arg, pc, line, file, data, raised, ret>>

(***************************************************************************)
(* Python's None. Where a str is expected it is a sequence that is no str  *)
(* (its element is not a character); where an object or a DataFrame is     *)
(* expected it is a record with no field of theirs.                        *)
(***************************************************************************)
None == <<"None">>
NoObject == [none |-> TRUE]

----------------------------------------------------------------------------
(* Bounds of the checked inputs.                                           *)

\* comma-separated targets of one generated import statement
MaxTargets == 2
\* source items (lines or triple-quoted blocks) of one generated file text
MaxItems == 3
\* files of one generated file system
MaxFiles == 2
MaxRefs == 2

----------------------------------------------------------------------------
(* Characters and str methods.                                             *)

KwFrom == <<"f","r","o","m">>
KwImport == <<"i","m","p","o","r","t">>
KwAs == <<"a","s">>
SP == <<" ">>
DOT == <<".">>
COMMA == <<",">>
NL == <<"\n">>
HASH == <<"#">>
TripleDq == <<"\"","\"","\"">>
TripleSq == <<"'","'","'">>

\* the characters str.strip() removes and \s matches
Whitespace == {" ", "\t", "\n", "\r"}

\* the characters \w matches (the boundaries of \b)
WordChars ==
    {"a","b","c","d","e","f","g","h","i","j","k","l","m",
     "n","o","p","q","r","s","t","u","v","w","x","y","z",
     "A","B","C","D","E","F","G","H","I","J","K","L","M",
     "N","O","P","Q","R","S","T","U","V","W","X","Y","Z",
     "0","1","2","3","4","5","6","7","8","9","_"}

\* the concatenation of a sequence of strings
RECURSIVE Cat(_)
Cat(ss) == IF ss = <<>> THEN <<>> ELSE Head(ss) \o Cat(Tail(ss))

\* s[p-1:] of Python, p counted from 1
From(s, p) == SubSeq(s, p, Len(s))

\* the text w stands in s at position p
HasAt(s, p, w) ==
    /\ p >= 1
    /\ p + Len(w) - 1 <= Len(s)
    /\ SubSeq(s, p, p + Len(w) - 1) = w

\* the first position q >= p where w stands in s, 0 if none (str.find)
Find(s, w, p) ==
    LET hits == {q \in p..Len(s) : HasAt(s, q, w)}
    IN  IF hits = {} THEN 0 ELSE CHOOSE q \in hits : \A r \in hits : q <= r

Contains(s, w) == Find(s, w, 1) # 0

\* str.strip()
RECURSIVE LStrip(_)
LStrip(s) ==
    IF s # <<>> /\ Head(s) \in Whitespace THEN LStrip(Tail(s)) ELSE s

RECURSIVE RStrip(_)
RStrip(s) ==
    IF s # <<>> /\ s[Len(s)] \in Whitespace
    THEN RStrip(SubSeq(s, 1, Len(s) - 1))
    ELSE s

Strip(s) == LStrip(RStrip(s))

\* str.split(sep) for a one-character sep: always at least one part
RECURSIVE Split(_, _)
Split(s, sep) ==
    LET q == Find(s, sep, 1)
    IN  IF q = 0 THEN <<s>>
        ELSE <<SubSeq(s, 1, q - 1)>> \o Split(From(s, q + 1), sep)

\* str.replace(ch, '') for a one-character ch
RemoveChar(s, ch) == SelectSeq(s, LAMBDA c : c # ch)

\* sep.join(parts)
RECURSIVE Join(_, _)
Join(parts, sep) ==
    IF parts = <<>> THEN <<>>
    ELSE IF Len(parts) = 1 THEN parts[1]
    ELSE parts[1] \o sep \o Join(Tail(parts), sep)

----------------------------------------------------------------------------
(* scan.py: class Line.                                                    *)

\* compile_from_import: (?:from(.*?))*(?:import)(.*)
\* A match starts at p when `import` stands at p (no from-group), or `from`
\* stands at p and an `import` follows it.
FromImportMatchesAt(s, p) ==
    \/ HasAt(s, p, KwImport)
    \/ HasAt(s, p, KwFrom) /\ Find(s, KwImport, p + 4) # 0

\* After a `from`, the lazy group grows one character at a time; at every
\* position the repetition first tries a further `from` (whose group then
\* replaces the earlier one), then `import`, whose group runs to the end.
RECURSIVE FromImportScan(_, _, _)
FromImportScan(s, q, g) ==
    IF HasAt(s, q, KwFrom) THEN FromImportScan(s, q + 4, q + 4)
    ELSE IF HasAt(s, q, KwImport)
         THEN <<SubSeq(s, g, q - 1), From(s, q + 6)>>
         ELSE FromImportScan(s, q + 1, g)

\* re.search: the groups of the leftmost match, None for a group that took
\* no part in it; None when nothing matches
FromImportSearch(s) ==
    LET starts == {p \in 1..Len(s) : FromImportMatchesAt(s, p)}
        p0 == CHOOSE p \in starts : \A r \in starts : p <= r
    IN  IF starts = {} THEN None
        ELSE IF HasAt(s, p0, KwImport) THEN <<None, From(s, p0 + 6)>>
        ELSE FromImportScan(s, p0 + 4, p0 + 4)

\* a plausible slip: the groups are not stripped of surrounding blanks
GetFromImport_NoStrip(statement) ==
    LET c == FromImportSearch(statement)
        clean(i) == IF i = None THEN <<>> ELSE RemoveChar(i, "(")
    IN  IF c = None THEN <<<<>>, <<>>>>
        ELSE <<clean(c[1]), clean(c[2])>>

\* a plausible slip: with no match, the rest of the line is taken as the
\* import part
GetFromImport_RestOnNoMatch(statement) ==
    LET c == FromImportSearch(statement)
        clean(i) == IF i = None THEN <<>> ELSE Strip(RemoveChar(i, "("))
    IN  IF c = None THEN <<<<>>, Strip(From(statement, Len(KwFrom) + 1))>>
        ELSE <<clean(c[1]), clean(c[2])>>

\* Line.get_from_import: <<lfrom, limport>>
GetFromImport(statement) ==
    LET c == FromImportSearch(statement)
        clean(i) == IF i = None THEN <<>> ELSE Strip(RemoveChar(i, "("))
    IN  IF c = None THEN <<<<>>, <<>>>>
        ELSE <<clean(c[1]), clean(c[2])>>

\* a plausible slip: the import targets are not split on '.'
GetImports_NoDotSplit(lfrom, limports) ==
    LET from_items == IF lfrom # <<>> THEN Split(lfrom, ".") ELSE <<>>
        parts == Split(limports, ",")
    IN  [k \in 1..Len(parts) |-> from_items \o <<Strip(parts[k])>>]

\* Line.get_imports: one path (a list of segments) per import target
GetImports(lfrom, limports) ==
    LET from_items == IF lfrom # <<>> THEN Split(lfrom, ".") ELSE <<>>
        parts == Split(limports, ",")
    IN  [k \in 1..Len(parts) |-> from_items \o Split(Strip(parts[k]), ".")]

\* compile_alias: (.*?)(\bas\b)( .*) -- the first `as` that begins a word
\* and is followed by a blank; 0 if none
AliasMatchAt(s) ==
    LET hits == {q \in 1..Len(s) :
                    /\ HasAt(s, q, KwAs \o SP)
                    /\ (q = 1 \/ s[q - 1] \notin WordChars)}
    IN  IF hits = {} THEN 0 ELSE CHOOSE q \in hits : \A r \in hits : q <= r

\* a plausible slip: the alias is left in the statement
GetAlias_KeepsAlias(statement) ==
    LET q == AliasMatchAt(statement)
    IN  IF q = 0 THEN <<<<>>, statement>>
        ELSE <<Strip(From(statement, q + 2)), statement>>

\* Line.get_alias: <<alias, statement without the alias>>
GetAlias(statement) ==
    LET q == AliasMatchAt(statement)
    IN  IF q = 0 THEN <<<<>>, statement>>
        ELSE <<Strip(From(statement, q + 2)),
               Strip(SubSeq(statement, 1, q - 1))>>

\* Line.get_alias_list: <<imports without aliases, aliases>>
GetAliasList(imports) ==
    LET last(item) == item[Len(item)]
    IN  <<[k \in 1..Len(imports) |->
              [imports[k] EXCEPT ![Len(imports[k])] = GetAlias(last(imports[k]))[2]]],
          [k \in 1..Len(imports) |-> GetAlias(last(imports[k]))[1]]>>

\* Line.__init__: the Line object of a text
NewLine(text) ==
    LET fi == GetFromImport(text)
        imports == GetImports(fi[1], fi[2])
        al == GetAliasList(imports)
    IN  [original |-> text,
         lfrom |-> fi[1],
         limports |-> fi[2],
         imports |-> al[1],
         alias |-> al[2]]

----------------------------------------------------------------------------
(* scan.py: class File.                                                    *)

\* the content of a file of the file system: a text, the cells of a
\* notebook, or a file that open() or read() fails on
TextFile(text) == [kind |-> "text", text |-> text]
NotebookFile(cells) == [kind |-> "notebook", cells |-> cells]
UnreadableFile == [kind |-> "unreadable"]

\* where a `#` comment ends: at the next line break, or at the end
EndOfLine(s, p) ==
    LET q == Find(s, NL, p) IN IF q = 0 THEN Len(s) + 1 ELSE q

\* a plausible slip: line comments are left in the code
CutEnd_NoLineComments(s, p) ==
    LET closeDq == IF HasAt(s, p, TripleDq) THEN Find(s, TripleDq, p + 3) ELSE 0
        closeSq == IF HasAt(s, p, TripleSq) THEN Find(s, TripleSq, p + 3) ELSE 0
    IN  IF closeDq # 0 THEN closeDq + 3
        ELSE IF closeSq # 0 THEN closeSq + 3
        ELSE 0

\* the pattern """(.|\n)*?"""|'''(.|\n)*?'''|(#.*) at position p: the
\* position after its match (the alternatives tried in order, the closing
\* triple quote the nearest one, a comment up to the line break), 0 when
\* it does not match at p (a triple quote that is never closed does not)
CutEnd(s, p) ==
    LET closeDq == IF HasAt(s, p, TripleDq) THEN Find(s, TripleDq, p + 3) ELSE 0
        closeSq == IF HasAt(s, p, TripleSq) THEN Find(s, TripleSq, p + 3) ELSE 0
    IN  IF closeDq # 0 THEN closeDq + 3
        ELSE IF closeSq # 0 THEN closeSq + 3
        ELSE IF s[p] = "#" THEN EndOfLine(s, p)
        ELSE 0

\* re.sub(pattern, '', code) from position p on: the leftmost match is cut
\* out and the scan goes on after it
RECURSIVE RemoveFrom(_, _)
RemoveFrom(s, p) ==
    LET cuts == {q \in p..Len(s) : CutEnd(s, q) # 0}
        q0 == CHOOSE q \in cuts : \A r \in cuts : q <= r
    IN  IF cuts = {} THEN From(s, p)
        ELSE SubSeq(s, p, q0 - 1) \o RemoveFrom(s, CutEnd(s, q0))

\* File.remove_all_comments
RemoveAllComments(code) == RemoveFrom(code, 1)

\* the code of the code cells of a notebook, joined by line breaks
CodeCells(cells) ==
    LET code == SelectSeq(cells, LAMBDA c : c.cell_type = "code")
    IN  Join([k \in 1..Len(code) |-> code[k].source], NL)

\* File.get_code: the text of a .py file, the code cells of a notebook;
\* a failed read is caught and reported, and the method returns None
GetCode(content, extension) ==
    IF extension = <<"p","y">>
    THEN IF content.kind = "text" THEN content.text ELSE None
    ELSE IF content.kind = "notebook" THEN CodeCells(content.cells) ELSE None

\* File.get_code_lines: no code (None or '') has no lines
GetCodeLines(code) ==
    IF code = None \/ code = <<>> THEN <<>>
    ELSE Split(RemoveAllComments(code), "\n")

\* a plausible slip: the keyword has to be at the very start of the line
IsImportLine_NoIndent(l) ==
    HasAt(l, 1, KwImport \o SP) \/ HasAt(l, 1, KwFrom \o SP)

\* File.compile_import: ^\s*(import|from) followed by a blank
IsImportLine(l) ==
    LET body == LStrip(l)
    IN  HasAt(body, 1, KwImport \o SP) \/ HasAt(body, 1, KwFrom \o SP)

\* File.get_import_lines
GetImportLines(lines) ==
    LET kept == SelectSeq(lines, IsImportLine)
    IN  [k \in 1..Len(kept) |-> Strip(kept[k])]

\* the last part of a path after '.'
Extension(filepath) ==
    LET parts == Split(filepath, ".") IN parts[Len(parts)]

\* File.__init__: the File object of a path of the file system
NewFile(filepath, content) ==
    LET extension == Extension(filepath)
        code == GetCode(content, extension)
        code_lines == GetCodeLines(code)
        statements == GetImportLines(code_lines)
        has_imports == Len(statements) > 0
    IN  [file |-> filepath,
         extension |-> extension,
         code |-> code,
         code_lines |-> code_lines,
         statements |-> statements,
         has_imports |-> has_imports,
         lines |-> IF has_imports
                   THEN [k \in 1..Len(statements) |-> NewLine(statements[k])]
                   ELSE <<>>]

----------------------------------------------------------------------------
(* Paths and the file system (os.path, os.walk, os.listdir).               *)

SLASH == <<"/">>
ExtPy == <<".","p","y">>
ExtIpynb == <<".","i","p","y","n","b">>

\* str.endswith
EndsWith(s, w) == HasAt(s, Len(s) - Len(w) + 1, w)

\* str.replace(w, ''): every occurrence, left to right
RECURSIVE ReplaceAll(_, _)
ReplaceAll(s, w) ==
    LET q == Find(s, w, 1)
    IN  IF q = 0 THEN s
        ELSE SubSeq(s, 1, q - 1) \o ReplaceAll(From(s, q + Len(w)), w)

\* the position of the last '/' of a path, 0 if none
LastSlash(path) ==
    LET hits == {q \in 1..Len(path) : path[q] = "/"}
    IN  IF hits = {} THEN 0 ELSE CHOOSE q \in hits : \A r \in hits : q >= r

\* os.path.basename, os.path.dirname
Basename(path) == From(path, LastSlash(path) + 1)
Dirname(path) == SubSeq(path, 1, LastSlash(path) - 1)

\* the files below a directory, at any depth
FilesBelow(files, d) == {f \in files : HasAt(f, 1, d \o SLASH)}

\* os.path.isfile
IsFile(files, path) == path \in files

\* a plausible slip: the root is never found missing
Exists_Always(files, path) == TRUE

\* os.path.exists
Exists(files, path) == IsFile(files, path) \/ FilesBelow(files, path) # {}

\* os.listdir(d): the names of the files and of the directories in d
ListDir(files, d) ==
    {Split(From(f, Len(d) + 2), "/")[1] : f \in FilesBelow(files, d)}

\* the orders of a finite set
RECURSIVE Orders(_)
Orders(S) ==
    IF S = {} THEN {<<>>}
    ELSE UNION {{<<x>> \o o : o \in Orders(S \ {x})} : x \in S}

\* os.walk goes top-down: the files of a directory come before the files of
\* the directories below it; the order within a directory is the file
\* system's (any)
IsWalkOrder(seq) ==
    \A i \in 1..Len(seq), j \in 1..Len(seq) :
        (i < j) => ~HasAt(Dirname(seq[i]), 1, Dirname(seq[j]) \o SLASH)

\* Directory.get_filepaths: the orders in which the .py and .ipynb files
\* can be found
GetFilepaths(files, path) ==
    IF ~IsFile(files, path)
    THEN {o \in Orders({f \in FilesBelow(files, path) :
                          EndsWith(f, ExtPy) \/ EndsWith(f, ExtIpynb)}) :
             IsWalkOrder(o)}
    ELSE {<<path>>}

----------------------------------------------------------------------------
(* analyzer.py: class Data.                                                *)

\* a DataFrame: its rows in order. A row has the path segments of one
\* imported submodule (the columns imported_0, imported_1, ...: a shorter
\* path is padded with missing values, which compare equal), and the
\* columns alias, original, path, extension, file, filename, directory.
DataFrame(rows) == [rows |-> rows]

\* the rows of one Line: one per imported submodule
LineRows(l) ==
    [k \in 1..Len(l.imports) |->
        [imported |-> l.imports[k], alias |-> l.alias[k], original |-> l.original]]

\* the rows of one File, tagged with the file they come from
FileRows(f) ==
    LET rows == Cat([k \in 1..Len(f.lines) |-> LineRows(f.lines[k])])
    IN  [k \in 1..Len(rows) |->
            [imported |-> rows[k].imported,
             alias |-> rows[k].alias,
             original |-> rows[k].original,
             path |-> f.file,
             extension |-> f.extension,
             file |-> Basename(f.file),
             filename |-> Split(Basename(f.file), ".")[1],
             directory |-> Dirname(f.file)]]

\* a plausible slip: the first file without imports ends the loop
RECURSIVE CreateRows_BreakOnEmpty(_)
CreateRows_BreakOnEmpty(files) ==
    IF files = <<>> THEN <<>>
    ELSE IF ~Head(files).has_imports THEN <<>>
    ELSE FileRows(Head(files)) \o CreateRows_BreakOnEmpty(Tail(files))

\* the loop of Data._create_df: files without imports are skipped
RECURSIVE CreateRows(_)
CreateRows(files) ==
    IF files = <<>> THEN <<>>
    ELSE IF ~Head(files).has_imports THEN CreateRows(Tail(files))
    ELSE FileRows(Head(files)) \o CreateRows(Tail(files))

\* Data._create_df: None when no file has imports
CreateDf(directory) ==
    LET rows == CreateRows(directory.files)
    IN  IF rows = <<>> THEN NoObject ELSE DataFrame(rows)

\* Directory.__init__ for a path that exists, with the files found in the
\* given order
NewDirectory(files, path, filepaths) ==
    [path |-> path,
     exists |-> TRUE,
     isfile |-> IsFile(DOMAIN files, path),
     isdir |-> ~IsFile(DOMAIN files, path),
     filepaths |-> filepaths,
     files |-> [k \in 1..Len(filepaths) |-> NewFile(filepaths[k], files[filepaths[k]])]]

\* DataAnalyzer.__init__ for a path that exists
NewDataAnalyzer(directory, to_exclude) ==
    [path |-> directory.path,
     directory |-> directory,
     _df |-> NoObject,
     _clean_df |-> NoObject,
     _own_processed_df |-> NoObject,
     own_modules |-> NoObject,
     to_exclude |-> to_exclude]

----------------------------------------------------------------------------
(* analyzer.py: class DataAnalyzer.                                        *)

\* a plausible slip: equal rows are all kept
DropDuplicates_Nothing(rows) == rows

\* DataFrame.drop_duplicates: the first of equal rows is kept
RECURSIVE DropDuplicates(_)
DropDuplicates(rows) ==
    IF rows = <<>> THEN <<>>
    ELSE LET n == Len(rows)
             init == DropDuplicates(SubSeq(rows, 1, n - 1))
         IN  IF \E k \in 1..(n - 1) : rows[k] = rows[n] THEN init
             ELSE Append(init, rows[n])

\* the column imported_0
Imported0(row) == row.imported[1]

\* DataAnalyzer._get_clean_data, given the rows of df
GetCleanData(rows) ==
    SelectSeq(DropDuplicates(rows), LAMBDA r : Imported0(r) # <<>>)

\* the directories of the rows
Directories(rows) == {rows[k].directory : k \in 1..Len(rows)}

\* DataAnalyzer._get_python_files_by_directory: the .py files of a
\* directory without '.py'; os.listdir('') fails
PythonFiles(files, d) ==
    {ReplaceAll(f, ExtPy) : f \in {n \in ListDir(files, d) : EndsWith(n, ExtPy)}}

\* the tag is_own_module of a row
IsOwnModule(files, row) == Imported0(row) \in PythonFiles(files, row.directory)

\* the set own_modules: (module, directory) of the tagged rows
OwnModules(files, rows) ==
    {<<Imported0(rows[k]), rows[k].directory>> :
        k \in {i \in 1..Len(rows) : IsOwnModule(files, rows[i])}}

\* own_module_usage_count[module]: the tagged rows of the pair
UsageCount(files, rows, module) ==
    Cardinality({k \in 1..Len(rows) :
                    /\ IsOwnModule(files, rows[k])
                    /\ Imported0(rows[k]) = module[1]
                    /\ rows[k].directory = module[2]})

\* a plausible slip: the rows of the own module's file are taken whole,
\* its imports of other own modules included
OwnModuleRows_KeepsOwn(files, rows, module) ==
    SelectSeq(rows, LAMBDA r :
        /\ r.filename = module[1]
        /\ r.directory = module[2])

\* a plausible slip: the substitution goes one level further, and the rows
\* of the own modules that the own module's file imports are taken too
OwnModuleRows_Transitive(files, rows, module) ==
    LET mine == SelectSeq(rows, LAMBDA r :
                    r.filename = module[1] /\ r.directory = module[2])
        below(r) == \E k \in 1..Len(mine) :
                        /\ IsOwnModule(files, mine[k])
                        /\ r.filename = Imported0(mine[k])
                        /\ r.directory = mine[k].directory
    IN  SelectSeq(mine, LAMBDA r : ~IsOwnModule(files, r))
            \o SelectSeq(rows, LAMBDA r : ~IsOwnModule(files, r) /\ below(r))

\* _own_module_df: the rows of the file of an own module that are not
\* themselves imports of own modules
OwnModuleRows(files, rows, module) ==
    SelectSeq(rows, LAMBDA r :
        /\ r.filename = module[1]
        /\ r.directory = module[2]
        /\ ~IsOwnModule(files, r))

\* [own_df] * count, concatenated
RECURSIVE Repeat(_, _)
Repeat(rows, count) ==
    IF count <= 0 THEN <<>> ELSE rows \o Repeat(rows, count - 1)

\* a plausible slip: the rows of an own module are added once, whatever
\* the number of its imports
Copies_Once(files, rows, module) == OwnModuleRows(files, rows, module)

\* the rows added for one own module: its rows, once per import of it
Copies(files, rows, module) ==
    Repeat(OwnModuleRows(files, rows, module), UsageCount(files, rows, module))

\* DataAnalyzer._process_own_modules, given the rows of clean_df and the
\* order in which the set own_modules is gone through
ProcessOwnModules(files, rows, order) ==
    LET external == SelectSeq(rows, LAMBDA r : ~IsOwnModule(files, r))
        internal == Cat([k \in 1..Len(order) |-> Copies(files, rows, order[k])])
    IN  external \o internal

\* groupby('imported_0').size(): the number of rows of a name
CountOf(rows, name) ==
    Cardinality({k \in 1..Len(rows) : Imported0(rows[k]) = name})

Names(rows) == {Imported0(rows[k]) : k \in 1..Len(rows)}

\* the Series a frequency count can be: the names by count, largest first
\* (the order of names of equal count is the sort's)
SortedCounts(rows) ==
    {[k \in 1..Len(o) |-> [name |-> o[k], count |-> CountOf(rows, o[k])]] :
        o \in {o \in Orders(Names(rows)) :
                 \A i \in 1..Len(o), j \in 1..Len(o) :
                    (i < j) => CountOf(rows, o[i]) >= CountOf(rows, o[j])}}

\* a plausible slip: nothing is taken out of the count
Excluding_Nothing(series, to_exclude) == series

\* count_series[~count_series.index.isin(self.to_exclude)]
Excluding(series, to_exclude) ==
    SelectSeq(series, LAMBDA e : \A k \in 1..Len(to_exclude) : e.name # to_exclude[k])

Series(items) == [items |-> items]

\* Series.unique(): the values in the order of their first appearance
RECURSIVE Unique(_)
Unique(seq) ==
    IF seq = <<>> THEN <<>>
    ELSE LET n == Len(seq)
             init == Unique(SubSeq(seq, 1, n - 1))
         IN  IF \E k \in 1..(n - 1) : seq[k] = seq[n] THEN init
             ELSE Append(init, seq[n])

\* a plausible slip: no copy is made, and the frame handed out is the
\* attribute itself
CopyOf_Same(attr) == attr

\* DataFrame.copy(): the frame handed out is a new object; the attribute
\* of the object that it shares its records with is none
CopyOf(attr) == "none"

\* the column is_own_module, set on the frame that _process_own_modules
\* works on
Tagged(files, rows) ==
    [k \in 1..Len(rows) |->
        [is_own_module |-> IsOwnModule(files, rows[k])] @@ rows[k]]

\* the outcome of an evaluation inside the object: the object after it, the
\* exception that ended it ("none" if it returned) and the value returned
Outcome(d, exc, value) == [data |-> d, raised |-> exc, value |-> value]

\* a plausible slip: a missing DataFrame is not copied; None is returned
EvalDf_NoneReturned(d) ==
    LET made == IF d._df = NoObject THEN CreateDf(d.directory) ELSE d._df
    IN  Outcome([d EXCEPT !._df = made], "none",
                IF made = NoObject THEN DataFrame(<<>>) ELSE made)

\* the property Data.df: the DataFrame is made at the first access; when
\* there is none (no file has imports), None.copy() raises AttributeError
EvalDf(d) ==
    LET made == IF d._df = NoObject THEN CreateDf(d.directory) ELSE d._df
    IN  IF made = NoObject
        THEN Outcome(d, "AttributeError", NoObject)
        ELSE Outcome([d EXCEPT !._df = made], "none", made)

\* DataAnalyzer.clean_df after the access r to df
CleanFromDf(r) ==
    IF r.raised # "none" THEN r
    ELSE Outcome([r.data EXCEPT !._clean_df = DataFrame(GetCleanData(r.value.rows))],
                 "none", DataFrame(GetCleanData(r.value.rows)))

\* the property DataAnalyzer.clean_df: made from df at the first access
EvalCleanDf(d) ==
    IF d._clean_df # NoObject THEN Outcome(d, "none", d._clean_df)
    ELSE CHOOSE o \in {CleanFromDf(r) : r \in {EvalDf(d)}} : TRUE

\* DataAnalyzer._process_own_modules after the access r to clean_df, with
\* the file names the file system lists. `order` is the order in which the
\* set own_modules is gone through; `empty_raises` is what
\* DataFrame.apply(axis=1) on a frame without rows leads to: it returns a
\* frame, not a column, and the assignment of it to the column
\* is_own_module raises in the pandas versions that refuse it. The column
\* is set on the frame that clean_df handed out: a copy
OwnFromClean(r, files, order, empty_raises) ==
    LET rows == r.value.rows
        own == SelectSeq(rows, LAMBDA x : IsOwnModule(files, x))
    IN  IF r.raised # "none" THEN r
        ELSE IF <<>> \in Directories(rows)
        THEN Outcome(r.data, "FileNotFoundError", NoObject)
        ELSE IF rows = <<>> /\ empty_raises
        THEN Outcome(r.data, "ValueError", NoObject)
        ELSE Outcome([r.data EXCEPT
                         !._clean_df =
                             IF CopyOf("_clean_df") = "none" THEN @
                             ELSE DataFrame(Tagged(files, rows)),
                         !._own_processed_df =
                             DataFrame(ProcessOwnModules(files, rows, order)),
                         !.own_modules =
                             Unique([k \in 1..Len(own) |-> Imported0(own[k])])],
                     "none", DataFrame(ProcessOwnModules(files, rows, order)))

\* the property DataAnalyzer.own_processed_df: made from clean_df at the
\* first access
EvalOwnProcessedDf(d, files, order, empty_raises) ==
    IF d._own_processed_df # NoObject THEN Outcome(d, "none", d._own_processed_df)
    ELSE CHOOSE o \in {OwnFromClean(r, files, order, empty_raises) :
                          r \in {EvalCleanDf(d)}} : TRUE

\* the orders in which own_modules can be gone through after the access r
\* to clean_df
OwnModuleOrders(r, files) ==
    IF r.raised # "none" \/ <<>> \in Directories(r.value.rows) THEN {<<>>}
    ELSE Orders(OwnModules(files, r.value.rows))

\* what the assignment of is_own_module can do after the access r to
\* clean_df: with rows it succeeds, without rows it raises or not
EmptyRaises(r) ==
    IF r.raised = "none" /\ r.value.rows = <<>> THEN BOOLEAN ELSE {FALSE}

----------------------------------------------------------------------------
(* The statements given to Line.                                           *)

\* identifiers; two of them hold the letters of a keyword
Idents ==
    { <<"a">>,
      <<"o","s">>,
      <<"i","m","p","o","r","t","l","i","b">>,
      <<"x","f","r","o","m">> }

\* the short names: submodules, aliases, further targets of a list
ShortNames == { <<"a">>, <<"o","s">> }

\* an import target: a dotted name, with or without an alias
DottedNames == Idents \cup {a \o DOT \o b : a \in Idents, b \in ShortNames}
Aliased(n, x) == n \o SP \o KwAs \o SP \o x
Targets == DottedNames \cup {Aliased(n, x) : n \in DottedNames, x \in ShortNames}

\* the comma-separated lists of at most n targets
RECURSIVE TargetLists(_)
TargetLists(n) ==
    IF n <= 1 THEN Targets
    ELSE TargetLists(n - 1)
         \cup {l \o COMMA \o SP \o t :
                 l \in TargetLists(n - 1), t \in ShortNames \cup {<<"o","s",".","a">>}}

\* the from-paths: absolute and relative
AbsFromPaths == Idents \cup {a \o DOT \o b : a \in Idents, b \in Idents}
FromPaths == AbsFromPaths \cup {DOT, DOT \o <<"a">>}

ImportOf(l) == KwImport \o SP \o l
FromImportOf(f, l) == KwFrom \o SP \o f \o SP \o KwImport \o SP \o l

ImportStatements ==
    {ImportOf(l) : l \in TargetLists(MaxTargets)}
    \cup {ImportOf(a \o DOT \o b \o DOT \o c) : a \in Idents, b \in Idents, c \in Idents}
FromStatements ==
    {FromImportOf(f, l) : f \in FromPaths, l \in TargetLists(MaxTargets)}

\* lines the import-line heuristic accepts that hold no `import`
NoImportStatements ==
    {KwFrom \o SP \o t : t \in {a \in Targets : ~Contains(a, KwImport)}}
    \cup {KwFrom \o SP \o <<"a">> \o SP \o <<"i","m","p","o","r">> \o SP \o <<"o","s">>,
          KwFrom \o SP \o SP}

Statements == ImportStatements \cup FromStatements \cup NoImportStatements

----------------------------------------------------------------------------
(* The run of Line(text).                                                  *)

InitLine ==
    /\ arg \in Statements
    /\ pc = "line_new"
    /\ line = NoObject
    /\ fs = NoObject
    /\ file = NoObject
    /\ data = NoObject
    /\ raised = "none"
    /\ ret = NoObject

\* Line.__init__
LineInit ==
    /\ pc = "line_new"
    /\ line' = NewLine(arg)
    /\ pc' = "line_done"
    /\ UNCHANGED <<fs, arg, file, data, raised, ret>>

NextLine == LineInit

SpecLine == InitLine /\ [][NextLine]_vars

----------------------------------------------------------------------------
(* Claims about Line, checked under SpecLine.                              *)

Parsed == pc = "line_done"

\* C1: every statement `from a.b import c, d` yields exactly two records,
\* [a,b,c] and [a,b,d], both starting with the from-prefix [a,b] -- also
\* when an identifier holds the letters `import` or `from`.
C1_FromImportTwoRecords ==
    \A a \in Idents, b \in Idents, c \in Idents, d \in ShortNames :
        (Parsed /\ arg = FromImportOf(a \o DOT \o b, c \o COMMA \o SP \o d))
            => line.imports = << <<a, b, c>>, <<a, b, d>> >>

\* C2: every statement `import a.b.c` (no from-clause, no alias) yields
\* exactly one record, whose path is [a,b,c] and whose alias is empty.
C2_PlainImportOneRecord ==
    \A a \in Idents, b \in Idents, c \in Idents :
        (Parsed /\ arg = ImportOf(a \o DOT \o b \o DOT \o c))
            => /\ line.imports = << <<a, b, c>> >>
               /\ line.alias = << <<>> >>

C2_Witness ==
    /\ Parsed
    /\ arg = ImportOf(<<"i","m","p","o","r","t","l","i","b">> \o DOT
                       \o <<"x","f","r","o","m">> \o DOT \o <<"o","s">>)
    /\ Len(line.imports) = 1
    /\ Len(line.imports[1]) = 3

\* C3: for every target written `name as alias`, with or without a
\* from-clause, the last path segment of the record is the name before the
\* alias, the alias is in the alias field, and the alias text is in no
\* segment of the path.
AliasOutOfPath(n, x) ==
    LET segs == Split(n, ".")
        path == line.imports[1]
    IN  /\ Len(line.imports) = 1
        /\ path[Len(path)] = segs[Len(segs)]
        /\ line.alias = <<x>>
        /\ \A k \in 1..Len(path) : ~Contains(path[k], SP \o KwAs \o SP)

C3_AliasOutOfPath ==
    \A n \in DottedNames, x \in ShortNames :
        /\ (Parsed /\ arg = ImportOf(Aliased(n, x))) => AliasOutOfPath(n, x)
        /\ \A f \in FromPaths :
              (Parsed /\ arg = FromImportOf(f, Aliased(n, x))) => AliasOutOfPath(n, x)

\* C7 as claimed: a line the heuristic accepts that has no `import` is
\* parsed without raising into one record with an empty from-path and the
\* whole remainder of the line as its single import target.
C7_RemainderIsTheTarget ==
    (Parsed /\ arg \in NoImportStatements)
        => /\ raised = "none"
           /\ line.lfrom = <<>>
           /\ line.limports = Strip(From(arg, Len(KwFrom) + 1))
           /\ Len(line.imports) = 1

\* C7 as amended: such a line (one that holds the text `import` nowhere) is
\* parsed without raising into one record with an empty from-path and an
\* EMPTY import target: its path is the single segment "", its alias "".
C7_NoImportEmptyRecord ==
    (Parsed /\ arg \in NoImportStatements)
        => /\ raised = "none"
           /\ line.lfrom = <<>>
           /\ line.limports = <<>>
           /\ line.imports = << << <<>> >> >>
           /\ line.alias = << <<>> >>

C7_Witness ==
    /\ Parsed
    /\ arg = KwFrom \o SP \o <<"a">>
    /\ line.imports = << << <<>> >> >>

----------------------------------------------------------------------------
(* The texts given to File.                                                *)

\* the lines that stand only inside triple-quoted blocks
HiddenImport == KwImport \o SP \o <<"h","i","d">>
HiddenFrom == KwFrom \o SP \o <<"h","i","d">> \o SP \o KwImport \o SP \o <<"a">>
HiddenLines == {HiddenImport, HiddenFrom}

\* source items, each a complete line or a complete triple-quoted block of
\* several lines, so that a text made of items has the items as its
\* lexical structure
CodeItems ==
    { KwImport \o SP \o <<"o","s">> \o NL,
      KwImport \o SP \o <<"o","s">> \o SP \o HASH \o SP \o <<"c">> \o NL,
      <<"\t">> \o KwFrom \o SP \o <<"a">> \o SP \o KwImport \o SP \o <<"o","s">> \o NL,
      <<"x"," ","="," ","1">> \o NL,
      KwImport \o <<"s"," ","="," ","1">> \o NL,
      KwImport \o <<"\t">> \o <<"o","s">> \o NL,
      SP \o KwImport \o SP \o <<"o","s">> \o SP \o NL }
StringItems ==
    { <<"x"," ","="," ","'">> \o TripleDq \o <<"'">> \o NL,
      <<"x"," ","="," ","\"">> \o HASH \o <<"\"">> \o NL }
CommentItems ==
    { HASH \o SP \o <<"c">> \o SP \o TripleDq \o NL }
BlockItems ==
    { TripleDq \o NL \o HiddenImport \o NL \o TripleDq \o NL,
      TripleSq \o NL \o HiddenFrom \o SP \o HASH \o NL \o TripleSq \o NL }
Items == CodeItems \cup StringItems \cup CommentItems \cup BlockItems

\* the texts of at most n items
RECURSIVE TextsOf(_)
TextsOf(n) ==
    IF n = 0 THEN {<<>>}
    ELSE TextsOf(n - 1) \cup {t \o i : t \in TextsOf(n - 1), i \in Items}

Texts == TextsOf(MaxItems)

\* the cells of the notebooks: one cell per item, code or markdown
Cells == [cell_type : {"code", "markdown"}, source : Items]

PyPath == <<"p","/","m",".","p","y">>
NbPath == <<"p","/","n",".","i","p","y","n","b">>

FileInputs ==
    {[path |-> PyPath, content |-> TextFile(t)] : t \in Texts}
    \cup {[path |-> PyPath, content |-> UnreadableFile],
          [path |-> NbPath, content |-> UnreadableFile]}
    \cup {[path |-> NbPath, content |-> NotebookFile(<<c>>)] : c \in Cells}

----------------------------------------------------------------------------
(* The run of File(filepath).                                              *)

InitFile ==
    /\ \E i \in FileInputs :
          /\ fs = [p \in {i.path} |-> i.content]
          /\ arg = i.path
    /\ pc = "file_new"
    /\ line = NoObject
    /\ file = NoObject
    /\ data = NoObject
    /\ raised = "none"
    /\ ret = NoObject

\* File.__init__
FileInit ==
    /\ pc = "file_new"
    /\ file' = NewFile(arg, fs[arg])
    /\ pc' = "file_done"
    /\ UNCHANGED <<fs, arg, line, data, raised, ret>>

NextFile == FileInit

SpecFile == InitFile /\ [][NextFile]_vars

----------------------------------------------------------------------------
(* Claims about File, checked under SpecFile.                              *)

Scanned == pc = "file_done"

\* the text the file was read from
SourceText == IF fs[arg].kind = "text" THEN fs[arg].text ELSE <<>>

\* C8: a triple-quoted block that spans several lines contributes no import
\* line to the result, whatever precedes the block in the text: none of the
\* lines that stand only inside blocks is among File.statements.
C8_BlocksContributeNothing ==
    Scanned => \A k \in 1..Len(file.statements) :
                  /\ file.statements[k] \notin HiddenLines
                  /\ ~Contains(file.statements[k], <<"h","i","d">>)

\* C9: no line of File.statements holds the character `#`.
C9_NoHashInStatements ==
    Scanned => \A k \in 1..Len(file.statements) :
                  ~Contains(file.statements[k], HASH)

\* an import line with a trailing comment was scanned, and returned
\* without the comment
C9_Witness ==
    /\ Scanned
    /\ fs[arg].kind = "text"
    /\ Contains(fs[arg].text, KwImport \o SP \o <<"o","s">> \o SP \o HASH)
    /\ Len(file.statements) >= 1
    /\ file.statements[1] = KwImport \o SP \o <<"o","s">>

----------------------------------------------------------------------------
(* The file systems given to Data and DataAnalyzer.                        *)

Util == <<"u","t","i","l">>
Np == <<"n","p">>
Hp == <<"h","p">>
Os == <<"o","s">>

\* a text of lines
LinesText(ls) == Cat([k \in 1..Len(ls) |-> ls[k] \o NL])

DirP == <<"p">>
DirS == DirP \o SLASH \o <<"s">>
MainPy == DirP \o SLASH \o <<"m","a","i","n">> \o ExtPy
UtilPy == DirP \o SLASH \o Util \o ExtPy
HpPy == DirP \o SLASH \o Hp \o ExtPy
NbIpynb == DirP \o SLASH \o <<"n","b">> \o ExtIpynb
SubUtilPy == DirS \o SLASH \o Util \o ExtPy
SoloPy == <<"s","o","l","o">> \o ExtPy
Missing == <<"q">>

NoImports == TextFile(<<"x"," ","="," ","1">> \o NL)

\* what each path can hold
Choices(path) ==
    IF path = MainPy THEN
        { TextFile(LinesText(<<ImportOf(Util)>>)),
          TextFile(LinesText(<<ImportOf(Util), FromImportOf(Util, <<"a">>)>>)),
          TextFile(LinesText(<<ImportOf(Util), ImportOf(Util)>>)),
          TextFile(LinesText(<<ImportOf(Util), FromImportOf(Util, <<"a">>),
                               ImportOf(Aliased(Util, <<"a">>))>>)),
          TextFile(LinesText(<<ImportOf(Os \o COMMA \o SP \o Np), ImportOf(Os)>>)),
          TextFile(LinesText(<<FromImportOf(DOT, Util)>>)),
          NoImports,
          UnreadableFile }
    ELSE IF path = UtilPy THEN
        { TextFile(LinesText(<<ImportOf(Np)>>)),
          TextFile(LinesText(<<ImportOf(Hp), ImportOf(Np)>>)),
          TextFile(LinesText(<<ImportOf(<<"m","a","i","n">>), ImportOf(Np)>>)),
          TextFile(<<>>),
          UnreadableFile }
    ELSE IF path = HpPy THEN
        { TextFile(LinesText(<<ImportOf(Os)>>)) }
    ELSE IF path = NbIpynb THEN
        { NotebookFile(<<[cell_type |-> "code", source |-> ImportOf(Util)],
                         [cell_type |-> "markdown", source |-> ImportOf(Os)],
                         [cell_type |-> "code", source |-> ImportOf(Np)]>>),
          UnreadableFile }
    ELSE IF path = SubUtilPy THEN
        { TextFile(LinesText(<<ImportOf(Os)>>)) }
    ELSE
        { TextFile(LinesText(<<ImportOf(Os)>>)), NoImports }

TreePaths == {MainPy, UtilPy, HpPy, NbIpynb, SubUtilPy}

\* the file systems that hold exactly the paths ps
RECURSIVE FileSystemsOver(_)
FileSystemsOver(ps) ==
    IF ps = {} THEN {<<>>}
    ELSE LET q == CHOOSE q \in ps : TRUE
         IN  {[x \in ps |-> IF x = q THEN c ELSE f[x]] :
                 f \in FileSystemsOver(ps \ {q}), c \in Choices(q)}

\* the file systems: at most MaxFiles files below p, or one file in the
\* working directory
FileSystems ==
    UNION {FileSystemsOver(ps) :
              ps \in {x \in SUBSET TreePaths : Cardinality(x) \in 1..MaxFiles}}
    \cup FileSystemsOver({SoloPy})

\* the paths a scan is asked for: a directory, a file, a path that does
\* not exist
Roots(f) == IF SoloPy \in DOMAIN f THEN {SoloPy}
            ELSE {DirP, Missing} \cup ({MainPy} \cap DOMAIN f)

ExcludeLists == {<<>>, <<Np>>}

----------------------------------------------------------------------------
(* The run of DataAnalyzer(path, to_exclude) and of its users.             *)

Init ==
    /\ fs \in FileSystems
    /\ arg \in [path : Roots(fs), to_exclude : ExcludeLists]
    /\ pc = "data_new"
    /\ line = NoObject
    /\ file = NoObject
    /\ data = NoObject
    /\ raised = "none"
    /\ ret = NoObject

\* DataAnalyzer.__init__ (Data.__init__, Directory.__init__): a path that
\* does not exist raises ValueError; else every file found is scanned
DataInit ==
    /\ pc = "data_new"
    /\ IF ~Exists(DOMAIN fs, arg.path)
       THEN /\ raised' = "ValueError"
            /\ pc' = "data_failed"
            /\ data' = data
       ELSE /\ \E filepaths \in GetFilepaths(DOMAIN fs, arg.path) :
                 data' = NewDataAnalyzer(NewDirectory(fs, arg.path, filepaths),
                                         arg.to_exclude)
            /\ raised' = "none"
            /\ pc' = "data_ready"
    /\ UNCHANGED <<fs, arg, line, file, ret>>

\* the attribute behind each property that returns a DataFrame
AttrOf ==
    [name \in {"df", "clean_df", "own_processed_df"} |->
        IF name = "df" THEN "_df"
        ELSE IF name = "clean_df" THEN "_clean_df"
        ELSE "_own_processed_df"]

\* the end of an operation of the object: its caches, the exception, the
\* value handed to the caller (a copy: the caller's changes to it do not
\* reach the object)
Finish(op, r) ==
    /\ data' = r.data
    /\ raised' = r.raised
    /\ ret' = [op |-> op,
               value |-> r.value,
               shares |-> IF r.raised = "none" /\ op.name \in DOMAIN AttrOf
                          THEN CopyOf(AttrOf[op.name]) ELSE "none"]
    /\ UNCHANGED <<fs, arg, pc, line, file>>

\* the operations of the object that return a DataFrame
Op(name) == [name |-> name]

\* reading Data.df
GetDf ==
    /\ pc = "data_ready"
    /\ \E r \in {EvalDf(data)} : Finish(Op("df"), r)

\* reading DataAnalyzer.clean_df
GetCleanDf ==
    /\ pc = "data_ready"
    /\ \E r \in {EvalCleanDf(data)} : Finish(Op("clean_df"), r)

\* reading DataAnalyzer.own_processed_df
GetOwnProcessedDf ==
    /\ pc = "data_ready"
    /\ \E c \in {EvalCleanDf(data)} :
       \E order \in OwnModuleOrders(c, DOMAIN fs), empty_raises \in EmptyRaises(c) :
       \E r \in {EvalOwnProcessedDf(data, DOMAIN fs, order, empty_raises)} :
          Finish(Op("own_processed_df"), r)

\* the end of get_frequencies after the access r to the DataFrame counted
Counted(op, r) ==
    IF r.raised # "none" THEN Finish(op, r)
    ELSE \E counts \in SortedCounts(r.value.rows) :
            Finish(op, Outcome(r.data, "none",
                       Series(IF op.exclude
                              THEN Excluding(counts, data.to_exclude)
                              ELSE counts)))

\* DataAnalyzer.get_frequencies(exclude, process_own_modules)
GetFrequencies ==
    /\ pc = "data_ready"
    /\ \E exclude \in BOOLEAN, process_own_modules \in BOOLEAN :
       \E c \in {EvalCleanDf(data)} :
          LET op == [name |-> "get_frequencies", exclude |-> exclude,
                     process_own_modules |-> process_own_modules]
          IN  IF process_own_modules
              THEN \E order \in OwnModuleOrders(c, DOMAIN fs),
                      empty_raises \in EmptyRaises(c) :
                   \E r \in {EvalOwnProcessedDf(data, DOMAIN fs, order, empty_raises)} :
                      Counted(op, r)
              ELSE Counted(op, c)

\* the caller changes the DataFrame that a property handed out (here: it
\* drops the first record); the change reaches the object only if the
\* frame is one of the object's attributes
CallerModifies ==
    /\ pc = "data_ready"
    /\ ret # NoObject
    /\ raised = "none"
    /\ ret.op.name \in DOMAIN AttrOf
    /\ ret.value.rows # <<>>
    /\ \E changed \in {DataFrame(Tail(ret.value.rows))} :
          /\ ret' = [op |-> [name |-> "caller_modified", of |-> ret.op.name],
                     value |-> changed,
                     shares |-> ret.shares]
          /\ data' = IF ret.shares = "none" THEN data
                     ELSE [data EXCEPT ![ret.shares] = changed]
    /\ UNCHANGED <<fs, arg, pc, line, file, raised>>

Next ==
    \/ DataInit
    \/ GetDf
    \/ GetCleanDf
    \/ GetOwnProcessedDf
    \/ GetFrequencies
    \/ CallerModifies

Spec == Init /\ [][Next]_vars

----------------------------------------------------------------------------
(* Claims about Data and DataAnalyzer, checked under Spec.                 *)

Ready == pc = "data_ready"

\* the last operation was `name` and it returned
Returned(name) ==
    /\ Ready
    /\ ret # NoObject
    /\ ret.op.name = name
    /\ raised = "none"

\* the last operation was `name`, whether it returned or raised
Called(name) ==
    /\ Ready
    /\ ret # NoObject
    /\ ret.op.name = name

\* the count of a name in a Series, 0 if it is not in it
CountIn(series, name) ==
    LET hits == {k \in 1..Len(series.items) : series.items[k].name = name}
    IN  IF hits = {} THEN 0 ELSE series.items[CHOOSE k \in hits : TRUE].count

\* the case of C4: util.py of directory p imports the package np once, np
\* is imported nowhere else, and the files of p refer to util n times (n
\* records of the cleaned collection, n >= 1)
UtilReferences ==
    Cardinality({k \in 1..Len(data._clean_df.rows) :
                    /\ Imported0(data._clean_df.rows[k]) = Util
                    /\ data._clean_df.rows[k].directory = DirP})

UtilImportsNpOnce ==
    /\ arg.path = DirP
    /\ UtilPy \in DOMAIN fs
    /\ fs[UtilPy] = TextFile(LinesText(<<ImportOf(Np)>>))
    /\ data._clean_df # NoObject
    /\ \A k \in 1..Len(data._clean_df.rows) :
          Imported0(data._clean_df.rows[k]) = Np
              => data._clean_df.rows[k].path = UtilPy
    /\ UtilReferences >= 1

\* C4 as claimed: in that case the resolved output and the frequency table
\* count np exactly n times.
C4_CountsExactlyN ==
    /\ (Returned("own_processed_df") /\ UtilImportsNpOnce)
          => CountOf(ret.value.rows, Np) = UtilReferences
    /\ (Returned("get_frequencies") /\ ret.op.process_own_modules
            /\ ~ret.op.exclude /\ UtilImportsNpOnce)
          => CountIn(ret.value, Np) = UtilReferences

\* C4 as amended: in that case the resolved output and the frequency table
\* count np exactly n + 1 times: the n copies put in for the references,
\* and the record of util.py itself, which stays in the output.
C4_CountsNPlusOne ==
    /\ (Returned("own_processed_df") /\ UtilImportsNpOnce)
          => CountOf(ret.value.rows, Np) = UtilReferences + 1
    /\ (Returned("get_frequencies") /\ ret.op.process_own_modules
            /\ ~ret.op.exclude /\ UtilImportsNpOnce)
          => CountIn(ret.value, Np) = UtilReferences + 1

C4_Witness ==
    /\ Returned("get_frequencies")
    /\ ret.op.process_own_modules
    /\ ~ret.op.exclude
    /\ UtilImportsNpOnce
    /\ UtilReferences = 2
    /\ CountIn(ret.value, Np) = 3
    /\ CountIn(ret.value, Util) = 0

\* the stems of the .py files of a directory: the names without the
\* ending '.py'
PyStems(d) ==
    {SubSeq(n, 1, Len(n) - Len(ExtPy)) :
        n \in {Basename(f) : f \in {g \in DOMAIN fs : Dirname(g) = d /\ EndsWith(g, ExtPy)}}}

\* C5: the resolved output holds no local-module record: the first path
\* segment of no record of it, the rows copied from the files of own modules
\* included, is the stem of a .py file of the record's own directory.
C5_NoLocalRecordInOutput ==
    Returned("own_processed_df")
        => \A k \in 1..Len(ret.value.rows) :
              Imported0(ret.value.rows[k]) \notin PyStems(ret.value.rows[k].directory)

\* the cleaned collection held records of local modules, one of them in the
\* file of a local module that is itself imported, and the output holds the
\* rows copied for it
C5_Witness ==
    /\ Returned("own_processed_df")
    /\ \E k \in 1..Len(data._clean_df.rows) :
          LET r == data._clean_df.rows[k]
          IN  /\ Imported0(r) \in PyStems(r.directory)
              /\ r.file = Util \o ExtPy
    /\ \E k \in 1..Len(data._clean_df.rows) :
          Imported0(data._clean_df.rows[k]) = Util
    /\ Len(ret.value.rows) >= 2

\* the scan was asked for a single .py file that holds no import statement
SingleFileNoImports ==
    /\ IsFile(DOMAIN fs, arg.path)
    /\ EndsWith(arg.path, ExtPy)
    /\ fs[arg.path] = NoImports

\* C6: scanning a single .py file with no import statements completes
\* without raising and yields an empty record collection: Data.df is empty
\* and so is the frequency count built on it.
C6_NoImportsEmptyCollection ==
    /\ (SingleFileNoImports /\ pc # "data_new") => Ready
    /\ (SingleFileNoImports /\ Called("df"))
          => raised = "none" /\ ret.value = DataFrame(<<>>)
    /\ (SingleFileNoImports /\ Called("get_frequencies"))
          => raised = "none" /\ ret.value = Series(<<>>)

\* the files of the scan that cannot be read
IsUnreadable(path) == fs[path].kind = "unreadable"

\* the records of the files that can be read, in the order of the scan, as
\* they are when the other files are absent
RowsOfReadable(filepaths) ==
    LET readable == SelectSeq(filepaths, LAMBDA q : ~IsUnreadable(q))
    IN  Cat([k \in 1..Len(readable) |->
                FileRows(NewFile(readable[k], fs[readable[k]]))])

\* C10: a file of a scanned directory that cannot be read does not end the
\* scan, contributes no import line and no record, and the records of the
\* other files are as if the file were absent.
C10_UnreadableFileSkipped ==
    /\ pc = "data_failed" => ~Exists(DOMAIN fs, arg.path)
    /\ Ready =>
          /\ \A k \in 1..Len(data.directory.files) :
                IsUnreadable(data.directory.filepaths[k])
                    => /\ data.directory.files[k].statements = <<>>
                       /\ data.directory.files[k].lines = <<>>
                       /\ FileRows(data.directory.files[k]) = <<>>
          /\ data._df # NoObject
                => data._df.rows = RowsOfReadable(data.directory.filepaths)
    /\ Returned("df") => ret.value.rows = RowsOfReadable(data.directory.filepaths)
    /\ (Called("df") /\ raised # "none")
          => RowsOfReadable(data.directory.filepaths) = <<>>

\* a directory with an unreadable file and a file with imports was scanned,
\* the unreadable file first, and df holds the records of the other file
C10_Witness ==
    /\ Returned("df")
    /\ arg.path = DirP
    /\ Len(data.directory.filepaths) = 2
    /\ IsUnreadable(data.directory.filepaths[1])
    /\ ~IsUnreadable(data.directory.filepaths[2])
    /\ Len(ret.value.rows) >= 1

\* no file of the file system is the root or lies below it
RootMissing ==
    \A f \in DOMAIN fs : f # arg.path /\ ~HasAt(f, 1, arg.path \o SLASH)

CountedRows ==
    IF ret.op.process_own_modules THEN data._own_processed_df.rows
    ELSE data._clean_df.rows

\* the names of a Series, in its order
SeriesNames(series) == [k \in 1..Len(series.items) |-> series.items[k].name]

\* the names of the list to_exclude
Excluded == {data.to_exclude[k] : k \in 1..Len(data.to_exclude)}

\* C12: with exclusion, no name of to_exclude is in the frequency sequence,
\* whatever its count, and every other name of the records is in it once,
\* with the count it has in the records (its count without exclusion);
\* nothing else is in it.
C12_ExclusionKeepsOtherCounts ==
    (Returned("get_frequencies") /\ ret.op.exclude)
        => /\ \A k \in 1..Len(ret.value.items) :
                 /\ ret.value.items[k].name \notin Excluded
                 /\ ret.value.items[k].name \in Names(CountedRows)
           /\ \A n \in Names(CountedRows) \ Excluded :
                 /\ Cardinality({k \in 1..Len(ret.value.items) :
                                    ret.value.items[k].name = n}) = 1
                 /\ CountIn(ret.value, n) = CountOf(CountedRows, n)

\* a count with exclusion in which the excluded name had the largest count
\* and another name was left
C12_Witness ==
    /\ Returned("get_frequencies")
    /\ ret.op.exclude
    /\ Excluded = {Np}
    /\ CountOf(CountedRows, Np) >= 2
    /\ \A n \in Names(CountedRows) : CountOf(CountedRows, n) <= CountOf(CountedRows, Np)
    /\ Len(ret.value.items) >= 1

\* where a name is first met in a record collection
FirstAt(rows, name) ==
    CHOOSE k \in 1..Len(rows) :
        /\ Imported0(rows[k]) = name
        /\ \A i \in 1..(k - 1) : Imported0(rows[i]) # name

\* C13: the frequency sequence is in non-increasing order of count, and two
\* names of equal count are in the order in which they are first met in the
\* records counted.
C13_SortedTiesByFirstMet ==
    Returned("get_frequencies")
        => \A i \in 1..Len(ret.value.items), j \in 1..Len(ret.value.items) :
              (i < j) =>
                  \/ ret.value.items[i].count > ret.value.items[j].count
                  \/ /\ ret.value.items[i].count = ret.value.items[j].count
                     /\ FirstAt(CountedRows, ret.value.items[i].name)
                            < FirstAt(CountedRows, ret.value.items[j].name)

----------------------------------------------------------------------------
(* A chain of local modules: main.py imports util, util.py imports hp,    *)
(* hp.py imports os, all in the directory p.                               *)

Main == <<"m","a","i","n">>

\* the lines by which main.py can refer to util, all different
UtilRefLines ==
    <<ImportOf(Util), FromImportOf(Util, <<"a">>), ImportOf(Aliased(Util, <<"a">>))>>

\* main.py refers to util n times, and to hp directly or not
ChainMains ==
    UNION {{TextFile(LinesText(SubSeq(UtilRefLines, 1, n))),
            TextFile(LinesText(SubSeq(UtilRefLines, 1, n) \o <<ImportOf(Hp)>>))} :
              n \in 1..MaxRefs}

ChainSystems ==
    {[x \in {MainPy, UtilPy, HpPy} |->
         IF x = MainPy THEN m
         ELSE IF x = UtilPy THEN TextFile(LinesText(<<ImportOf(Hp), ImportOf(Np)>>))
         ELSE TextFile(LinesText(<<ImportOf(Os)>>))] : m \in ChainMains}

InitChain ==
    /\ fs \in ChainSystems
    /\ arg \in [path : {DirP, MainPy, Missing}, to_exclude : ExcludeLists]
    /\ pc = "data_new"
    /\ line = NoObject
    /\ file = NoObject
    /\ data = NoObject
    /\ raised = "none"
    /\ ret = NoObject

SpecChain == InitChain /\ [][Next]_vars

\* the records of the cleaned collection that refer to module m from the
\* directory p: the direct references to m
Refs(m) ==
    Cardinality({k \in 1..Len(data._clean_df.rows) :
                    /\ Imported0(data._clean_df.rows[k]) = m
                    /\ data._clean_df.rows[k].directory = DirP})

\* the records of the file of module m in p that name x
RowsOfModule(m, x) ==
    Cardinality({k \in 1..Len(data._clean_df.rows) :
                    /\ data._clean_df.rows[k].filename = m
                    /\ data._clean_df.rows[k].directory = DirP
                    /\ Imported0(data._clean_df.rows[k]) = x})

\* C14: substitution is one level only. In the chain, the resolved output
\* holds each external name x as often as the records name it, plus, for
\* each local module, once per direct reference to the module for each
\* record of the module's own file that names x: the os of hp.py comes in
\* once per direct reference to hp, and not again for the references of
\* main.py to util.
C14_OneLevelOnly ==
    Returned("own_processed_df")
        => \A x \in {Os, Np} :
              CountOf(ret.value.rows, x) =
                  CountOf(data._clean_df.rows, x)
                    + Refs(Main) * RowsOfModule(Main, x)
                    + Refs(Util) * RowsOfModule(Util, x)
                    + Refs(Hp) * RowsOfModule(Hp, x)

\* the whole chain was scanned, main.py refers to util twice and not to hp,
\* and os is in the output twice: for hp.py itself and for the reference
\* of util.py to hp
C14_Witness ==
    /\ Returned("own_processed_df")
    /\ arg.path = DirP
    /\ Refs(Util) = 2
    /\ Refs(Hp) = 1
    /\ RowsOfModule(Util, Hp) = 1
    /\ CountOf(ret.value.rows, Os) = 2
    /\ CountOf(ret.value.rows, Np) = 3

\* a record collection as a multiset: each record with the number of times
\* it is in the collection
BagOf(rows) ==
    [r \in {rows[k] : k \in 1..Len(rows)} |->
        Cardinality({k \in 1..Len(rows) : rows[k] = r})]

\* the records that a run of the scan over the same files makes when it
\* finds the files in the order o
RowsOfRun(o) == CreateRows(NewDirectory(fs, arg.path, o).files)

\* C15: a second run over the same unchanged directory yields the same
\* multiset of records as the run made, in whatever order it finds the
\* files; a run without records leaves every other run without records.
C15_SameMultisetOnRerun ==
    Ready =>
        \A o \in GetFilepaths(DOMAIN fs, arg.path) :
            /\ data._df # NoObject => BagOf(RowsOfRun(o)) = BagOf(data._df.rows)
            /\ (Called("df") /\ raised # "none") => RowsOfRun(o) = <<>>

\* a run whose records come from two files, and another order of the files
\* that gives the records in another order
C15_Witness ==
    /\ Returned("df")
    /\ Cardinality({ret.value.rows[k].path : k \in 1..Len(ret.value.rows)}) = 2
    /\ \E o \in GetFilepaths(DOMAIN fs, arg.path) : RowsOfRun(o) # data._df.rows

\* C16: in the scan of a directory, a file without import lines gives no
\* record and no error, and every record bears the path, the extension and
\* the directory of the file whose text it comes from.
C16_NoImportFileSkipped ==
    (Called("df") /\ ~IsFile(DOMAIN fs, arg.path))
        => /\ raised = "none"
           /\ \A k \in 1..Len(ret.value.rows) :
                 \E i \in 1..Len(data.directory.files) :
                    LET f == data.directory.files[i]
                        r == ret.value.rows[k]
                    IN  /\ f.has_imports
                        /\ r.path = f.file
                        /\ r.extension = f.extension
                        /\ r.directory = Dirname(f.file)
                        /\ \E j \in 1..Len(f.statements) : r.original = f.statements[j]

----------------------------------------------------------------------------
(* Local modules: main.py of the directory p imports util and hp; beside  *)
(* it there is one more file, of the same name or not, in p or below it.  *)

HpPyPy == DirP \o SLASH \o Hp \o ExtPy \o ExtPy

\* the file beside main.py
LocalNeighbours ==
    {[path |-> UtilPy, content |-> NoImports],
     [path |-> UtilPy, content |-> TextFile(LinesText(<<ImportOf(Np)>>))],
     [path |-> SubUtilPy, content |-> TextFile(LinesText(<<ImportOf(Os)>>))],
     [path |-> HpPy, content |-> TextFile(LinesText(<<ImportOf(Os)>>))],
     [path |-> HpPyPy, content |-> TextFile(LinesText(<<ImportOf(Os)>>))]}

LocalSystems ==
    {[x \in {MainPy, n.path} |->
         IF x = MainPy THEN TextFile(LinesText(refs \o <<ImportOf(Np)>>))
         ELSE n.content] :
        n \in LocalNeighbours,
        refs \in {<<ImportOf(Util)>>, <<ImportOf(Hp)>>, <<ImportOf(Util), ImportOf(Hp)>>}}

InitLocal ==
    /\ fs \in LocalSystems
    /\ arg \in [path : {DirP, MainPy, Missing}, to_exclude : ExcludeLists]
    /\ pc = "data_new"
    /\ line = NoObject
    /\ file = NoObject
    /\ data = NoObject
    /\ raised = "none"
    /\ ret = NoObject

SpecLocal == InitLocal /\ [][Next]_vars

\* C17: a record is taken for a local module, and so is not in the
\* resolved output, exactly when its first path segment is the stem of a
\* .py file of the record's own directory.
C17_LocalIffStemInOwnDirectory ==
    Returned("own_processed_df")
        => \A k \in 1..Len(data._clean_df.rows) :
              LET r == data._clean_df.rows[k]
              IN  (\A i \in 1..Len(ret.value.rows) : ret.value.rows[i] # r)
                      <=> Imported0(r) \in PyStems(r.directory)

\* after n characters of whitespace, the line goes on with `import ` or
\* `from `
StartsWithKeyword(l) ==
    \E n \in 0..Len(l) :
        /\ \A i \in 1..n : l[i] \in Whitespace
        /\ \E w \in {KwImport \o SP, KwFrom \o SP} :
              /\ n + Len(w) <= Len(l)
              /\ \A i \in 1..Len(w) : l[n + i] = w[i]

\* s is l without the whitespace at its ends
IsTrimmed(l, s) ==
    \E i \in 1..Len(l), j \in 1..Len(l) :
        /\ s = SubSeq(l, i, j)
        /\ l[i] \notin Whitespace
        /\ l[j] \notin Whitespace
        /\ \A k \in 1..(i - 1) : l[k] \in Whitespace
        /\ \A k \in (j + 1)..Len(l) : l[k] \in Whitespace

\* the positions of the lines of the comment-stripped text that start
\* with a keyword
KeywordLines == {k \in 1..Len(file.code_lines) : StartsWithKeyword(file.code_lines[k])}

\* C18: the import lines of a file are the lines of its comment-stripped
\* text that start, after optional whitespace, with `import ` or `from `:
\* all of them and no other line, in the order of the text, each without
\* the whitespace at its ends and otherwise as it is.
C18_LineSelection ==
    Scanned =>
        /\ Len(file.statements) = Cardinality(KeywordLines)
        /\ \E at \in [1..Len(file.statements) -> KeywordLines] :
              /\ \A i \in 1..Len(file.statements), j \in 1..Len(file.statements) :
                    (i < j) => at[i] < at[j]
              /\ \A i \in 1..Len(file.statements) :
                    IsTrimmed(file.code_lines[at[i]], file.statements[i])

\* a text with an indented import line that has blanks at its end, a line
\* that starts with `imports`, and an import line at the start of a line
C18_Witness ==
    /\ Scanned
    /\ Len(file.statements) = 2
    /\ Len(file.code_lines) = 4
    /\ file.code_lines[1] = SP \o KwImport \o SP \o <<"o","s">> \o SP
    /\ file.code_lines[2] = KwImport \o <<"s"," ","="," ","1">>
    /\ file.code_lines[3] = KwImport \o SP \o <<"o","s">> \o SP

\* what C19 says of the records of a line with the from-path segments
\* `prefix` and the import clause l
RecordsPerTarget(prefix, l) ==
    LET targets == Split(l, ",")
    IN  /\ Len(line.imports) = Len(targets)
        /\ Len(line.alias) = Len(line.imports)
        /\ \A k \in 1..Len(targets) :
              /\ ~Contains(targets[k], SP \o KwAs \o SP) => line.alias[k] = <<>>
              /\ Len(line.imports[k]) > Len(prefix)
              /\ SubSeq(line.imports[k], 1, Len(prefix)) = prefix

\* C19: a parsed line has one record per comma-separated target of its
\* import clause and one alias per record (the empty string for a target
\* without alias), and all its records start with the segments of the
\* from-path of the line.
C19_OneRecordPerTarget ==
    Parsed =>
        /\ \A l \in TargetLists(MaxTargets) :
              arg = ImportOf(l) => RecordsPerTarget(<<>>, l)
        /\ \A f \in FromPaths, l \in TargetLists(MaxTargets) :
              arg = FromImportOf(f, l) => RecordsPerTarget(Split(f, "."), l)

\* the first path segment of every record of the line is empty / is not
FirstSegmentsEmpty == \A k \in 1..Len(line.imports) : line.imports[k][1] = <<>>
FirstSegmentsNotEmpty == \A k \in 1..Len(line.imports) : line.imports[k][1] # <<>>

\* no record of the collection has an empty first segment
NoEmptyFirst(frame) ==
    frame # NoObject => \A k \in 1..Len(frame.rows) : Imported0(frame.rows[k]) # <<>>

\* C20: the records of a relative import (`from . import x`,
\* `from .m import x`) have the empty string as first path segment, and
\* the records of an absolute import never have; the cleaned collection
\* holds no record with an empty first segment, and so neither the
\* resolved output nor a frequency count does.
C20_RelativeImportsEmptySegment ==
    /\ Parsed =>
          /\ \A f \in FromPaths \ AbsFromPaths, l \in TargetLists(MaxTargets) :
                arg = FromImportOf(f, l) => FirstSegmentsEmpty
          /\ \A f \in AbsFromPaths, l \in TargetLists(MaxTargets) :
                arg = FromImportOf(f, l) => FirstSegmentsNotEmpty
          /\ arg \in ImportStatements => FirstSegmentsNotEmpty
    /\ Ready =>
          /\ NoEmptyFirst(data._clean_df)
          /\ NoEmptyFirst(data._own_processed_df)
          /\ Returned("get_frequencies")
                => \A k \in 1..Len(ret.value.items) : ret.value.items[k].name # <<>>

\* one step of the object, seen from its caches and from what it returns
KeepsInput ==
    (pc = "data_ready" /\ pc' = "data_ready") =>
        /\ data._df # NoObject => data'._df = data._df
        /\ data._clean_df # NoObject => data'._clean_df = data._clean_df
        /\ (ret' # NoObject /\ raised' = "none" /\ ret'.op.name = "df")
              => ret'.value = data'._df
        /\ (ret' # NoObject /\ raised' = "none" /\ ret'.op.name = "clean_df")
              => ret'.value = data'._clean_df

\* C21: the resolver does not change its input. No step, own_processed_df,
\* get_frequencies and a caller's change of a returned collection included,
\* changes the records behind df and clean_df once they are made, and df
\* and clean_df return those records: the same as before, local-module
\* records included.
C21_ResolverKeepsInput == [][KeepsInput]_vars

\* clean_df has been read after the resolver ran, and it returned a record
\* of a local module
C21_Witness ==
    /\ Returned("clean_df")
    /\ data._own_processed_df # NoObject
    /\ \E k \in 1..Len(ret.value.rows) :
          Imported0(ret.value.rows[k]) \in PyStems(ret.value.rows[k].directory)
    /\ Len(data._own_processed_df.rows) < Len(ret.value.rows)

\* the stem of a file name: the name without its extension
StemOf(name) ==
    LET dots == {q \in 1..Len(name) : name[q] = "."}
    IN  IF dots = {} THEN name
        ELSE SubSeq(name, 1, (CHOOSE q \in dots : \A r \in dots : q >= r) - 1)

\* a record of a local module: its first segment is the stem of a .py file
\* of its directory
IsLocalRecord(r) == Imported0(r) \in PyStems(r.directory)

\* N(m, d): the records of the cleaned collection that refer to the local
\* module m from the directory d
References(m, d) ==
    Cardinality({k \in 1..Len(data._clean_df.rows) :
                    /\ IsLocalRecord(data._clean_df.rows[k])
                    /\ Imported0(data._clean_df.rows[k]) = m
                    /\ data._clean_df.rows[k].directory = d})

\* C22: the resolved output is, as a multiset, the non-local records of
\* the cleaned collection, each once and unchanged, plus N(m, d) copies of
\* the non-local records of the file of each referenced local module m of
\* d: a non-local record of the file of stem m in d is in it 1 + N(m, d)
\* times (once as its own row, N(m, d) times as a copy), and nothing else
\* is in it; its size is the sum of these numbers.
C22_OutputAsMultiset ==
    Returned("own_processed_df")
        => LET out == BagOf(ret.value.rows)
               kept == {data._clean_df.rows[k] : k \in
                           {i \in 1..Len(data._clean_df.rows) :
                               ~IsLocalRecord(data._clean_df.rows[i])}}
           IN  /\ DOMAIN out = kept
               /\ \A x \in kept : out[x] = 1 + References(StemOf(x.file), x.directory)

\* the different records of the aggregated collection that name n
DistinctRecords(n) ==
    {r \in {data._df.rows[k] : k \in 1..Len(data._df.rows)} : Imported0(r) = n}

\* C23: no two records of the cleaned collection agree on every field. An
\* import line repeated verbatim in one file is one record: it counts once
\* in the frequencies, and once in the number of references to a local
\* module (np of util.py is in the resolved output once for util.py and
\* once for each different record that refers to util).
C23_NoDuplicateRecords ==
    /\ (Ready /\ data._clean_df # NoObject)
          => \A i \in 1..Len(data._clean_df.rows), j \in 1..Len(data._clean_df.rows) :
                (i # j) => data._clean_df.rows[i] # data._clean_df.rows[j]
    /\ (Returned("get_frequencies") /\ ~ret.op.process_own_modules /\ ~ret.op.exclude)
          => \A n \in Names(data._df.rows) \ {<<>>} :
                CountIn(ret.value, n) = Cardinality(DistinctRecords(n))
    /\ (Returned("own_processed_df") /\ UtilImportsNpOnce)
          => CountOf(ret.value.rows, Np)
                = 1 + Cardinality({r \in DistinctRecords(Util) : r.directory = DirP})

\* main.py holds the line `import util` twice; the aggregated collection
\* has the record twice, the frequencies count util once
C23_Witness ==
    /\ Returned("get_frequencies")
    /\ ~ret.op.process_own_modules
    /\ ~ret.op.exclude
    /\ \E i \in 1..Len(data._df.rows), j \in 1..Len(data._df.rows) :
          /\ i # j
          /\ data._df.rows[i] = data._df.rows[j]
          /\ Imported0(data._df.rows[i]) = Util
    /\ CountIn(ret.value, Util) = 1

====
